---- MODULE Spec2Model ----
(***************************************************************************)
(* Model of HTMLTest_v8.py: the per-clan war report of the Dark Family.    *)
(*                                                                         *)
(* JSON objects are functions from field names to values; a field that is  *)
(* absent from the payload is absent from the function's domain, and       *)
(* dict.get(k, default) is Get.  Python's None, where it is used as a      *)
(* dictionary key or formatted into a name, is the string "None".          *)
(***************************************************************************)
EXTENDS Integers, Sequences, FiniteSets, TLC

VARIABLES
    pc,                  \* position of the program
    i,                   \* index of the clan in DARK_FAMILY_CLANS (enumerate, line 264)
    clan_tag,            \* argument of generate_html_for_clan
    is_first_clan,       \* argument of generate_html_for_clan
    clan_data,           \* payload of /clans/{clanTag}
    current_war_data,    \* payload of /clans/{clanTag}/currentriverrace
    war_log_data,        \* payload of /clans/{clanTag}/riverracelog
    current_member_tags, \* set of roster tags (line 88)
    player_stats,        \* the registry: tag -> record (line 89)
    war_ids,             \* sequence of war identifiers (line 102)
    all_participants,    \* set of tags (line 104)
    war_benchmarks,      \* war identifier -> benchmark (line 116)
    war_index,           \* number of war-log items already processed (line 117)
    war_participants,    \* participants of the war being processed (line 120)
    benchmark,           \* benchmark of the war being processed (line 126)
    section,             \* value returned by generate_html_for_clan
    nav_links,           \* sidebar links built so far (line 267)
    clan_sections_html   \* sections appended so far (line 268)

vars == <<pc, i, clan_tag, is_first_clan, clan_data, current_war_data, war_log_data,
          current_member_tags, player_stats, war_ids, all_participants,
          war_benchmarks, war_index, war_participants, benchmark, section,
          nav_links, clan_sections_html>>

-----------------------------------------------------------------------------
(* Bounds of the model *)

\* longest war log the per-clan specification draws
MaxWars == 3
\* longest participant list the benchmark specification draws
MaxLen == 5

-----------------------------------------------------------------------------
(* Configuration, lines 12-25 *)

DARK_FAMILY_CLANS ==
    << <<"Dark Humor", "#2V2VRRLJ">>,
       <<"Dark Vendetta", "#8UCRLJ0J">>,
       <<"Dark Inception", "#8Y8UG0JJ">>,
       <<"Dark Intentions", "#YUYP9229">>,
       <<"Dark Disciples", "#L2VCQ0V8">>,
       <<"Dark Prestige", "#QPY80LRQ">>,
       <<"Dusted Compass", "#Q80YJGGG">>,
       <<"Dark Paradox", "#9C8Y0QGY">> >>

TOP_CLANS_FOR_BENCHMARK == {"#2V2VRRLJ", "#8UCRLJ0J", "#8Y8UG0JJ", "#YUYP9229"}

\* the benchmark used when nothing better is known (lines 54, 58, 126)
DefaultBenchmark == 16

\* the early-completion checkpoints of line 65
Checkpoints == {4, 8, 12}

-----------------------------------------------------------------------------
(* Python values *)

\* the failure sentinel returned by get_api_data (line 46)
None == [None |-> TRUE]

\* the empty JSON object {}
EmptyDict == [k \in {} |-> 0]

\* str(None), and None used as a dictionary key
NoneStr == "None"

\* dict.get(k, default)
Get(d, k, default) == IF k \in DOMAIN d THEN d[k] ELSE default

\* bool(x) of a payload: None and {} are both falsy
Truthy(x) == x # None /\ DOMAIN x # {}

\* the placeholder name of lines 113 and 138
FormerPlaceholder == "Former Member (*)"

\* f"{name} (*)" of line 139
MarkFormer(name) == name \o " (*)"

\* s.split('T')[0] for a string given as a sequence of characters
RECURSIVE BeforeT(_)
BeforeT(s) ==
    IF s = <<>> \/ Head(s) = "T" THEN <<>> ELSE <<Head(s)>> \o BeforeT(Tail(s))

\* the default 'N/A' of line 102
NA == <<"N", "/", "A">>

\* f"War {i+1} ({date})" of line 102: the two values formatted into the label
WarId(n, war) == [war |-> n, date |-> BeforeT(Get(war, "createdDate", NA))]

SeqToSet(s) == {s[k] : k \in DOMAIN s}

Max(S) == CHOOSE m \in S : \A x \in S : x <= m

-----------------------------------------------------------------------------
(* calculate_fair_benchmark, lines 48-68 *)

\* line 56: the positive decksUsed values, in input order
RECURSIVE DecksUsedList(_)
DecksUsedList(participants) ==
    IF participants = <<>> THEN <<>>
    ELSE LET d == Get(Head(participants), "decksUsed", 0)
         IN (IF d > 0 THEN <<d>> ELSE <<>>) \o DecksUsedList(Tail(participants))

\* Counter(list): the keys in order of first insertion (a dict keeps insertion order)
RECURSIVE CounterKeys(_)
CounterKeys(list) ==
    IF list = <<>> THEN <<>>
    ELSE LET init == SubSeq(list, 1, Len(list) - 1)
             last == list[Len(list)]
             keys == CounterKeys(init)
         IN IF last \in SeqToSet(keys) THEN keys ELSE Append(keys, last)

\* Counter(list)[v]
CounterCount(list, v) == Cardinality({k \in DOMAIN list : list[k] = v})

\* faulty variant of MostCommon: a tie goes to the count met last
MostCommonLast(list) ==
    LET keys == CounterKeys(list)
        best == Max({CounterCount(list, keys[k]) : k \in DOMAIN keys})
        at   == Max({k \in DOMAIN keys : CounterCount(list, keys[k]) = best})
    IN keys[at]

\* Counter(list).most_common(1)[0][0]: max() over the items by count keeps the
\* first maximal item in iteration order
MostCommon(list) ==
    LET keys == CounterKeys(list)
        best == Max({CounterCount(list, keys[k]) : k \in DOMAIN keys})
        at   == CHOOSE k \in DOMAIN keys :
                    /\ CounterCount(list, keys[k]) = best
                    /\ \A j \in DOMAIN keys : CounterCount(list, keys[j]) = best => k <= j
    IN keys[at]

\* faulty variant of calculate_fair_benchmark: no default of 16, no mode
FairBenchmarkZeroDefault(participants) ==
    LET decks_used_list == DecksUsedList(participants)
    IN IF decks_used_list = <<>> THEN 0 ELSE Max(SeqToSet(decks_used_list))

\* faulty variant of calculate_fair_benchmark: the mode is returned whatever it is
FairBenchmarkAlwaysMode(participants) ==
    LET decks_used_list == DecksUsedList(participants)
    IN IF decks_used_list = <<>> THEN DefaultBenchmark
       ELSE MostCommon(decks_used_list)

calculate_fair_benchmark(participants) ==
    IF participants = <<>> THEN DefaultBenchmark
    ELSE LET decks_used_list == DecksUsedList(participants)
         IN IF decks_used_list = <<>> THEN DefaultBenchmark
            ELSE LET max_attacks == Max(SeqToSet(decks_used_list))
                     most_common_attacks == MostCommon(decks_used_list)
                 IN IF most_common_attacks \in Checkpoints
                       /\ most_common_attacks < max_attacks
                    THEN most_common_attacks
                    ELSE max_attacks

-----------------------------------------------------------------------------
(* generate_html_for_clan, lines 70-173: the aggregation *)

MemberList(data) == Get(data, "memberList", <<>>)

\* member['tag'] or member['name'] of lines 88-93 raises KeyError
SeedRaises(memberList) ==
    \E k \in DOMAIN memberList :
        ~({"tag", "name"} \subseteq DOMAIN memberList[k])

\* the record of lines 91-92 and 113-114
NewRecord(name) ==
    [name |-> name, current_war_decks_used |-> 0, current_war_fame |-> 0,
     total_war_fame |-> 0, total_decks_used |-> 0, war_history |-> EmptyDict]

\* line 88
MemberTags(memberList) == {memberList[k].tag : k \in DOMAIN memberList}

\* lines 89-94: a dict comprehension keeps the last member of a repeated tag
SeedStats(memberList) ==
    [t \in MemberTags(memberList) |->
        NewRecord(memberList[Max({k \in DOMAIN memberList : memberList[k].tag = t})].name)]

\* current_war_data.get('clan', {}).get('participants', []) of line 96
CurrentParticipants(data) == Get(Get(data, "clan", EmptyDict), "participants", <<>>)

\* faulty variant of OverlayCurrentWar: the roster test of line 97 is dropped
RECURSIVE OverlayCurrentWarUnmatched(_, _)
OverlayCurrentWarUnmatched(stats, participants) ==
    IF participants = <<>> THEN stats
    ELSE LET p == Head(participants)
             tag == Get(p, "tag", NoneStr)
             old == IF tag \in DOMAIN stats THEN stats[tag]
                    ELSE NewRecord(Get(p, "name", NoneStr))
             new == [old EXCEPT !.current_war_decks_used = Get(p, "decksUsed", 0),
                                !.current_war_fame = Get(p, "fame", 0)]
         IN OverlayCurrentWarUnmatched(
                [t \in DOMAIN stats \cup {tag} |-> IF t = tag THEN new ELSE stats[t]],
                Tail(participants))

\* lines 96-99
RECURSIVE OverlayCurrentWar(_, _)
OverlayCurrentWar(stats, participants) ==
    IF participants = <<>> THEN stats
    ELSE LET p == Head(participants)
             tag == Get(p, "tag", NoneStr)
         IN OverlayCurrentWar(
                IF tag \in DOMAIN stats
                THEN [stats EXCEPT ![tag].current_war_decks_used = Get(p, "decksUsed", 0),
                                   ![tag].current_war_fame = Get(p, "fame", 0)]
                ELSE stats,
                Tail(participants))

\* line 101
WarLogItems(data) == Get(data, "items", <<>>)

\* line 102
WarIds(items) == [k \in DOMAIN items |-> WarId(k, items[k])]

Standings(war) == Get(war, "standings", <<>>)

\* standing.get('clan', {}).get('tag') == clan_tag of lines 107 and 122
Matches(standing, tag) == Get(Get(standing, "clan", EmptyDict), "tag", NoneStr) = tag

\* standing.get('clan', {}).get('participants', []) of lines 108 and 123
ParticipantsOf(standing) == Get(Get(standing, "clan", EmptyDict), "participants", <<>>)

TagsOf(participants) == {Get(participants[k], "tag", NoneStr) : k \in DOMAIN participants}

\* faulty variant of LoggedTags: only the first standing of the clan is read
LoggedTagsFirstStandingOnly(items, tag) ==
    UNION {LET st == Standings(items[w])
               ms == {k \in DOMAIN st : Matches(st[k], tag)}
           IN IF ms = {} THEN {}
              ELSE TagsOf(ParticipantsOf(st[CHOOSE k \in ms : \A j \in ms : k <= j]))
           : w \in DOMAIN items}

\* lines 105-109: the tags of the participants of every standing of this clan
LoggedTags(items, tag) ==
    UNION {UNION {TagsOf(ParticipantsOf(Standings(items[w])[k])) :
                     k \in {j \in DOMAIN Standings(items[w]) :
                                Matches(Standings(items[w])[j], tag)}}
           : w \in DOMAIN items}

\* lines 111-114
WithFormerMembers(stats, tags) ==
    [t \in DOMAIN stats \cup tags |->
        IF t \in DOMAIN stats THEN stats[t] ELSE NewRecord(FormerPlaceholder)]

\* faulty variant of FirstMatchingParticipants: the loop lacks its break
LastMatchingParticipants(war, tag) ==
    LET st == Standings(war)
        ms == {k \in DOMAIN st : Matches(st[k], tag)}
    IN IF ms = {} THEN <<>> ELSE ParticipantsOf(st[Max(ms)])

\* lines 120-124: the participants of the first standing of this clan
FirstMatchingParticipants(war, tag) ==
    LET st == Standings(war)
        ms == {k \in DOMAIN st : Matches(st[k], tag)}
    IN IF ms = {} THEN <<>>
       ELSE ParticipantsOf(st[CHOOSE k \in ms : \A j \in ms : k <= j])

\* faulty variant of WarBenchmark: the top-clan test is dropped
WarBenchmarkAlwaysFair(tag, participants) == calculate_fair_benchmark(participants)

\* lines 126-128
WarBenchmark(tag, participants) ==
    IF tag \in TOP_CLANS_FOR_BENCHMARK
    THEN calculate_fair_benchmark(participants)
    ELSE DefaultBenchmark

\* d[k] = v on a dictionary
SetKey(d, k, v) == [x \in DOMAIN d \cup {k} |-> IF x = k THEN v ELSE d[x]]

ZeroHistory == [fame |-> 0, decksUsed |-> 0]

\* faulty variant of DefaultHistory: placeholder records get no default entry
DefaultHistoryRosterOnly(stats, war_id) ==
    [t \in DOMAIN stats |->
        IF stats[t].name = FormerPlaceholder THEN stats[t]
        ELSE [stats[t] EXCEPT !.war_history = SetKey(@, war_id, ZeroHistory)]]

\* lines 132-133
DefaultHistory(stats, war_id) ==
    [t \in DOMAIN stats |->
        [stats[t] EXCEPT !.war_history = SetKey(@, war_id, ZeroHistory)]]

\* faulty variant of RecordParticipants: neither the name nor the totals are updated
RECURSIVE RecordParticipantsNoTotals(_, _, _)
RecordParticipantsNoTotals(stats, war_id, participants) ==
    IF participants = <<>> THEN stats
    ELSE LET p == Head(participants)
             tag == Get(p, "tag", NoneStr)
         IN RecordParticipantsNoTotals(
                IF tag \in DOMAIN stats
                THEN [stats EXCEPT
                        ![tag].war_history =
                            SetKey(@, war_id, [fame |-> Get(p, "fame", 0),
                                               decksUsed |-> Get(p, "decksUsed", 0)])]
                ELSE stats,
                war_id, Tail(participants))

\* lines 135-142
RECURSIVE RecordParticipants(_, _, _)
RecordParticipants(stats, war_id, participants) ==
    IF participants = <<>> THEN stats
    ELSE LET p == Head(participants)
             tag == Get(p, "tag", NoneStr)
             fame == Get(p, "fame", 0)
             decks_used == Get(p, "decksUsed", 0)
         IN RecordParticipants(
                IF tag \in DOMAIN stats
                THEN [stats EXCEPT
                        ![tag].name =
                            IF @ = FormerPlaceholder
                            THEN MarkFormer(Get(p, "name", NoneStr)) ELSE @,
                        ![tag].war_history =
                            SetKey(@, war_id, [fame |-> fame, decksUsed |-> decks_used]),
                        ![tag].total_war_fame = @ + fame,
                        ![tag].total_decks_used = @ + decks_used]
                ELSE stats,
                war_id, Tail(participants))

\* faulty variant of AllTruthy: only the clan info is tested
AllTruthyClanDataOnly(a, b, c) == Truthy(a)

\* all([clan_data, current_war_data, war_log_data]) of line 79
AllTruthy(a, b, c) == Truthy(a) /\ Truthy(b) /\ Truthy(c)

\* the fragment of lines 80-86
ErrorSection == [tag |-> clan_tag, kind |-> "error", active |-> is_first_clan]

\* the fragment of lines 144-173
ReportSection == [tag |-> clan_tag, kind |-> "report", active |-> is_first_clan]

-----------------------------------------------------------------------------
(* Payloads the API is taken to return *)

\* sequences over S of length at most n
SeqsUpTo(S, n) == UNION {[1..k -> S] : k \in 0..n}

\* the tag of a clan that is not under report
OtherClanTag == "#OTHER"

mAnn == [tag |-> "#P1", name |-> "Ann"]
mBob == [tag |-> "#P2", name |-> "Bob"]

pAnn  == [tag |-> "#P1", name |-> "Ann", decksUsed |-> 4, fame |-> 100]
pBob  == [tag |-> "#P2", name |-> "Bob", decksUsed |-> 8, fame |-> 200]
pCy   == [tag |-> "#P3", name |-> "Cy", decksUsed |-> 4, fame |-> 300]
pCyd  == [tag |-> "#P3", name |-> "Cyd", decksUsed |-> 16, fame |-> 50]
pBare == [tag |-> "#P4"]
pAnon == [name |-> "Eve", decksUsed |-> 8, fame |-> 100]
\* a participant whose reported name is "Former Member"
pFormer == [tag |-> "#P3", name |-> "Former Member", decksUsed |-> 4, fame |-> 10]

\* clan info payloads: the failure sentinel, {}, rosters, and entries lacking a field
ClanInfos ==
    { None, EmptyDict,
      [tag |-> "#CLAN"],
      [memberList |-> <<mAnn, mBob>>],
      [memberList |-> <<mAnn>>],
      [memberList |-> <<mAnn, [name |-> "Dan"]>>],
      [memberList |-> <<[tag |-> "#P2"]>>] }

\* current-war payloads
CurrentWars ==
    { None, EmptyDict,
      [state |-> "training"],
      [state |-> "warDay",
       clan |-> [participants |-> << [tag |-> "#P1", decksUsed |-> 3, fame |-> 150],
                                     [tag |-> "#P3", decksUsed |-> 2, fame |-> 70],
                                     [name |-> "Eve"] >>]] }

Standing(tag, participants) == [clan |-> [tag |-> tag, participants |-> participants]]

Date1 == <<"0", "1", "T", "0", "9">>
Date2 == <<"0", "2", "T", "1", "0">>

\* wars of the log of the clan with the given tag
Wars(tag) ==
    { [createdDate |-> Date1,
       standings |-> <<Standing(OtherClanTag, <<pBob>>), Standing(tag, <<pAnn, pCy>>)>>],
      [createdDate |-> Date2,
       standings |-> <<Standing(tag, <<pCy, pBob>>), Standing(tag, <<pBare>>)>>],
      [standings |-> <<Standing(tag, <<pCy, pCyd>>)>>],
      [createdDate |-> Date1],
      [createdDate |-> Date2,
       standings |-> <<[rank |-> 1], Standing(tag, <<pBare, pAnon>>)>>],
      [createdDate |-> Date1,
       standings |-> <<[clan |-> [tag |-> tag]]>>],
      [createdDate |-> Date2,
       standings |-> <<Standing(tag, <<pFormer>>)>>] }

\* war-log payloads
WarLogs(tag) ==
    {None, EmptyDict, [paging |-> EmptyDict]}
        \cup {[items |-> log] : log \in SeqsUpTo(Wars(tag), MaxWars)}

\* the payloads of the whole-run specification
RunClanInfos == {None, EmptyDict, [memberList |-> <<mAnn, mBob>>],
                 [memberList |-> <<[name |-> "Dan"]>>]}
RunCurrentWars == {None, [state |-> "training"]}
RunWarLogs(tag) ==
    {None, [items |-> << [createdDate |-> Date1,
                          standings |-> <<Standing(tag, <<pAnn, pCy>>)>>] >>]}

-----------------------------------------------------------------------------
(* The steps of generate_html_for_clan *)

Locals == <<current_member_tags, player_stats, war_ids, all_participants,
            war_benchmarks, war_index, war_participants, benchmark>>
Caller == <<i, nav_links, clan_sections_html>>
Args == <<clan_tag, is_first_clan>>
Payloads == <<clan_data, current_war_data, war_log_data>>

\* the locals of a call that has assigned none of them
FreshLocals ==
    /\ clan_data = None
    /\ current_war_data = None
    /\ war_log_data = None
    /\ current_member_tags = {}
    /\ player_stats = EmptyDict
    /\ war_ids = <<>>
    /\ all_participants = {}
    /\ war_benchmarks = EmptyDict
    /\ war_index = 0
    /\ war_participants = <<>>
    /\ benchmark = DefaultBenchmark
    /\ section = None

\* line 73
FetchClanData(payloads) ==
    /\ pc = "fetch_clan"
    /\ \E d \in payloads : clan_data' = d
    /\ pc' = "fetch_war"
    /\ UNCHANGED <<Caller, Args, current_war_data, war_log_data, Locals, section>>

\* line 74
FetchCurrentWar(payloads) ==
    /\ pc = "fetch_war"
    /\ \E d \in payloads : current_war_data' = d
    /\ pc' = "fetch_log"
    /\ UNCHANGED <<Caller, Args, clan_data, war_log_data, Locals, section>>

\* line 75
FetchWarLog(payloads) ==
    /\ pc = "fetch_log"
    /\ \E d \in payloads : war_log_data' = d
    /\ pc' = "fetched"
    /\ UNCHANGED <<Caller, Args, clan_data, current_war_data, Locals, section>>

\* lines 79-86
ErrorFragment ==
    /\ pc = "fetched"
    /\ ~AllTruthy(clan_data, current_war_data, war_log_data)
    /\ section' = ErrorSection
    /\ pc' = "returned"
    /\ UNCHANGED <<Caller, Args, Payloads, Locals>>

\* lines 88-94
SeedRegistry ==
    /\ pc = "fetched"
    /\ AllTruthy(clan_data, current_war_data, war_log_data)
    /\ IF SeedRaises(MemberList(clan_data))
       THEN /\ pc' = "raised"
            /\ UNCHANGED <<current_member_tags, player_stats>>
       ELSE /\ current_member_tags' = MemberTags(MemberList(clan_data))
            /\ player_stats' = SeedStats(MemberList(clan_data))
            /\ pc' = "overlay"
    /\ UNCHANGED <<Caller, Args, Payloads, war_ids, all_participants, war_benchmarks,
                   war_index, war_participants, benchmark, section>>

\* lines 96-99
OverlayStep ==
    /\ pc = "overlay"
    /\ player_stats' = OverlayCurrentWar(player_stats, CurrentParticipants(current_war_data))
    /\ pc' = "war_log"
    /\ UNCHANGED <<Caller, Args, Payloads, current_member_tags, war_ids, all_participants,
                   war_benchmarks, war_index, war_participants, benchmark, section>>

\* lines 101-116
PrepareWarLog ==
    /\ pc = "war_log"
    /\ LET items == WarLogItems(war_log_data)
           tags == DOMAIN player_stats \cup LoggedTags(items, clan_tag)
       IN /\ war_ids' = WarIds(items)
          /\ all_participants' = tags
          /\ player_stats' = WithFormerMembers(player_stats, tags)
    /\ war_benchmarks' = EmptyDict
    /\ war_index' = 0
    /\ pc' = "war_loop"
    /\ UNCHANGED <<Caller, Args, Payloads, current_member_tags, war_participants,
                   benchmark, section>>

\* lines 117-142: one iteration of the loop over the war log
ProcessWar ==
    /\ pc = "war_loop"
    /\ war_index < Len(WarLogItems(war_log_data))
    /\ LET war == WarLogItems(war_log_data)[war_index + 1]
           war_id == war_ids[war_index + 1]
           participants == FirstMatchingParticipants(war, clan_tag)
           bm == WarBenchmark(clan_tag, participants)
       IN /\ war_participants' = participants
          /\ benchmark' = bm
          /\ war_benchmarks' = SetKey(war_benchmarks, war_id, bm)
          /\ player_stats' =
                RecordParticipants(DefaultHistory(player_stats, war_id), war_id, participants)
    /\ war_index' = war_index + 1
    /\ UNCHANGED <<pc, Caller, Args, Payloads, current_member_tags, war_ids,
                   all_participants, section>>

\* lines 144-173
RenderSection ==
    /\ pc = "war_loop"
    /\ war_index = Len(WarLogItems(war_log_data))
    /\ section' = ReportSection
    /\ pc' = "returned"
    /\ UNCHANGED <<Caller, Args, Payloads, Locals>>

\* the arguments of the calls the per-call specification makes: the first clan,
\* which is a top clan, and the last one, which is not
CallIndices == {1, Len(DARK_FAMILY_CLANS)}

Init ==
    /\ pc = "fetch_clan"
    /\ i \in CallIndices
    /\ clan_tag = DARK_FAMILY_CLANS[i][2]
    /\ is_first_clan = (i = 1)
    /\ FreshLocals
    /\ nav_links = <<>>
    /\ clan_sections_html = <<>>

Next ==
    \/ FetchClanData(ClanInfos)
    \/ FetchCurrentWar(CurrentWars)
    \/ FetchWarLog(WarLogs(clan_tag))
    \/ ErrorFragment
    \/ SeedRegistry
    \/ OverlayStep
    \/ PrepareWarLog
    \/ ProcessWar
    \/ RenderSection

\* one call of generate_html_for_clan
Spec == Init /\ [][Next]_vars

-----------------------------------------------------------------------------
(* calculate_fair_benchmark on its own *)

\* the decksUsed values drawn: zero, the checkpoints, the nominal maximum and a
\* value that is none of them
DeckValues == {0, 4, 8, 12, 16, 5}

BenchParticipants ==
    {[tag |-> "#P1"]} \cup {[tag |-> "#P1", decksUsed |-> d] : d \in DeckValues}

\* participants with the given attack counts
WithAttacks(counts) == [k \in DOMAIN counts |-> [tag |-> "#P1", decksUsed |-> counts[k]]]

\* participant lists drawn whatever the bound
ExampleLists ==
    { WithAttacks(<<4, 4, 4, 8, 4, 4>>), WithAttacks(<<16, 16, 16, 16>>),
      WithAttacks(<<4, 4, 8, 8, 16>>), WithAttacks(<<16, 16, 4, 4, 8>>) }

InitBench ==
    /\ pc = "benchmark"
    /\ i = 1
    /\ clan_tag = DARK_FAMILY_CLANS[1][2]
    /\ is_first_clan = TRUE
    /\ clan_data = None
    /\ current_war_data = None
    /\ war_log_data = None
    /\ current_member_tags = {}
    /\ player_stats = EmptyDict
    /\ war_ids = <<>>
    /\ all_participants = {}
    /\ war_benchmarks = EmptyDict
    /\ war_index = 0
    /\ war_participants \in SeqsUpTo(BenchParticipants, MaxLen) \cup ExampleLists
    /\ benchmark = DefaultBenchmark
    /\ section = None
    /\ nav_links = <<>>
    /\ clan_sections_html = <<>>

\* line 128
CallBenchmark ==
    /\ pc = "benchmark"
    /\ benchmark' = calculate_fair_benchmark(war_participants)
    /\ pc' = "benchmarked"
    /\ UNCHANGED <<Caller, Args, Payloads, current_member_tags, player_stats, war_ids,
                   all_participants, war_benchmarks, war_index, war_participants, section>>

NextBench == CallBenchmark

\* calculate_fair_benchmark applied to every participant list within the bounds
SpecBench == InitBench /\ [][NextBench]_vars

-----------------------------------------------------------------------------
(* generate_master_html_report, lines 259-269 and 380-384 *)

InitRun ==
    /\ pc = "loop"
    /\ i = 1
    /\ clan_tag = ""
    /\ is_first_clan = FALSE
    /\ FreshLocals
    /\ nav_links = <<>>
    /\ clan_sections_html = <<>>

\* lines 264-268: the next clan of the list is reported
CallForClan ==
    /\ pc = "loop"
    /\ i <= Len(DARK_FAMILY_CLANS)
    /\ nav_links' = Append(nav_links, DARK_FAMILY_CLANS[i][1])
    /\ clan_tag' = DARK_FAMILY_CLANS[i][2]
    /\ is_first_clan' = (i = 1)
    /\ pc' = "fetch_clan"
    /\ UNCHANGED <<i, clan_sections_html, Payloads, Locals, section>>

\* lines 268-269: the returned section is appended and the callee's locals are gone
AppendSection ==
    /\ pc = "returned"
    /\ clan_sections_html' = Append(clan_sections_html, section)
    /\ i' = i + 1
    /\ pc' = "loop"
    /\ clan_data' = None
    /\ current_war_data' = None
    /\ war_log_data' = None
    /\ current_member_tags' = {}
    /\ player_stats' = EmptyDict
    /\ war_ids' = <<>>
    /\ all_participants' = {}
    /\ war_benchmarks' = EmptyDict
    /\ war_index' = 0
    /\ war_participants' = <<>>
    /\ benchmark' = DefaultBenchmark
    /\ section' = None
    /\ UNCHANGED <<nav_links, Args>>

\* lines 271-384: the document is assembled and written
WriteReport ==
    /\ pc = "loop"
    /\ i > Len(DARK_FAMILY_CLANS)
    /\ pc' = "done"
    /\ UNCHANGED <<Caller, Args, Payloads, Locals, section>>

NextRun ==
    \/ CallForClan
    \/ FetchClanData(RunClanInfos)
    \/ FetchCurrentWar(RunCurrentWars)
    \/ FetchWarLog(RunWarLogs(clan_tag))
    \/ ErrorFragment
    \/ SeedRegistry
    \/ OverlayStep
    \/ PrepareWarLog
    \/ ProcessWar
    \/ RenderSection
    \/ AppendSection
    \/ WriteReport

\* the whole run over the configured clans
SpecRun == InitRun /\ [][NextRun]_vars

-----------------------------------------------------------------------------
(* Properties of the aggregation *)

\* the report of a clan has been built from its three payloads
Aggregated == pc = "returned" /\ section = ReportSection

Items == WarLogItems(war_log_data)

PlayerTags == {"#P1", "#P2", "#P3", "#P4", NoneStr}

\* the tag is the tag of an entry of the roster
InRoster(t) ==
    \E k \in DOMAIN MemberList(clan_data) : MemberList(clan_data)[k].tag = t

\* the tag a participant entry is recorded under
TagOfEntry(p) == IF "tag" \in DOMAIN p THEN p.tag ELSE NoneStr

\* the standing is one of the clan under report
OwnStanding(st) ==
    /\ "clan" \in DOMAIN st
    /\ "tag" \in DOMAIN st.clan
    /\ st.clan.tag = clan_tag

EntriesOf(st) ==
    IF "clan" \in DOMAIN st /\ "participants" \in DOMAIN st.clan
    THEN st.clan.participants ELSE <<>>

\* the tag is the tag of a participant of some standing of the clan, in war w
InWarAnyStanding(t, w) ==
    "standings" \in DOMAIN Items[w] /\
    \E k \in DOMAIN Items[w].standings :
        /\ OwnStanding(Items[w].standings[k])
        /\ \E e \in DOMAIN EntriesOf(Items[w].standings[k]) :
              TagOfEntry(EntriesOf(Items[w].standings[k])[e]) = t

\* the entries of war w read by the report: those of the first standing of the clan
WarEntries(w) ==
    IF "standings" \notin DOMAIN Items[w] THEN <<>>
    ELSE LET st == Items[w].standings
         IN IF \A k \in DOMAIN st : ~OwnStanding(st[k]) THEN <<>>
            ELSE EntriesOf(st[CHOOSE k \in DOMAIN st :
                                 /\ OwnStanding(st[k])
                                 /\ \A j \in 1..(k - 1) : ~OwnStanding(st[j])])

\* the positions of the entries of war w that carry tag t
EntriesOfTag(t, w) == {e \in DOMAIN WarEntries(w) : TagOfEntry(WarEntries(w)[e]) = t}

InWar(t, w) == EntriesOfTag(t, w) # {}

\* C1: once a report is built, the tags of the registry are exactly the roster tags
\* together with the tags of the participants of every standing of the clan under
\* report in the war log (a participant without a tag counts under None).
C1_RegistryTagsAreUnion ==
    Aggregated =>
        \A t \in PlayerTags \cup DOMAIN player_stats :
            t \in DOMAIN player_stats <=>
                (InRoster(t) \/ \E w \in DOMAIN Items : InWarAnyStanding(t, w))

\* a report whose registry holds a roster member absent from the log and a tag found
\* only in a second standing of the clan
C1_Witness ==
    /\ Aggregated
    /\ \E t \in DOMAIN player_stats :
          InRoster(t) /\ \A w \in DOMAIN Items : ~InWarAnyStanding(t, w)
    /\ \E t \in DOMAIN player_stats :
          /\ ~InRoster(t)
          /\ \E w \in DOMAIN Items : InWarAnyStanding(t, w)
          /\ \A w \in DOMAIN Items : ~InWar(t, w)

\* C2: once a report is built, every record's war_history has exactly the war
\* identifiers as its keys, one per war, and holds {fame: 0, decksUsed: 0} for every
\* war whose standing of the clan does not list the record's tag.
C2_HistoryCoversEveryWar ==
    Aggregated =>
        /\ Len(war_ids) = Len(Items)
        /\ Cardinality(SeqToSet(war_ids)) = Len(war_ids)
        /\ \A t \in DOMAIN player_stats :
              /\ DOMAIN player_stats[t].war_history = SeqToSet(war_ids)
              /\ \A w \in DOMAIN Items :
                    ~InWar(t, w) =>
                        player_stats[t].war_history[war_ids[w]] = [fame |-> 0, decksUsed |-> 0]

\* a report over several wars with a roster member and a former member, each absent
\* from one war and present in another
C2_Witness ==
    /\ Aggregated
    /\ Len(war_ids) >= 2
    /\ \E t \in DOMAIN player_stats :
          /\ InRoster(t)
          /\ \E w \in DOMAIN Items : InWar(t, w)
          /\ \E w \in DOMAIN Items : ~InWar(t, w)
    /\ \E t \in DOMAIN player_stats :
          /\ ~InRoster(t)
          /\ \E w \in DOMAIN Items : InWar(t, w)
          /\ \E w \in DOMAIN Items : ~InWar(t, w)

-----------------------------------------------------------------------------
(* Properties of calculate_fair_benchmark *)

\* the benchmark of war_participants has been computed
Benchmarked == pc = "benchmarked"

\* the attack count of the k-th participant, zero when it reports none
Attacks(k) ==
    IF "decksUsed" \in DOMAIN war_participants[k] THEN war_participants[k].decksUsed ELSE 0

PositiveAt == {k \in DOMAIN war_participants : Attacks(k) > 0}

PositiveCounts == {Attacks(k) : k \in PositiveAt}

MaxPositive == CHOOSE m \in PositiveCounts : \A x \in PositiveCounts : x <= m

Frequency(v) == Cardinality({k \in PositiveAt : Attacks(k) = v})

\* the positive attack counts of the highest frequency
Modes == {v \in PositiveCounts : \A u \in PositiveCounts : Frequency(u) <= Frequency(v)}

FirstAt(v) == CHOOSE k \in PositiveAt : Attacks(k) = v /\ \A j \in 1..(k - 1) : Attacks(j) # v

\* the tied value met first in input order
FirstMode ==
    LET modes == Modes
    IN CHOOSE v \in modes : \A u \in modes : FirstAt(v) <= FirstAt(u)

\* C3: the benchmark is at least 1 for every participant list, and is 16 when the
\* list is empty or no participant has a positive decksUsed.
C3_BenchmarkPositiveDefault16 ==
    Benchmarked =>
        /\ benchmark >= 1
        /\ (\A k \in DOMAIN war_participants : Attacks(k) = 0) => benchmark = 16

\* a non-empty list without a positive attack count, one entry lacking decksUsed
C3_Witness ==
    /\ Benchmarked
    /\ Len(war_participants) >= 2
    /\ \A k \in DOMAIN war_participants : Attacks(k) = 0
    /\ \E k \in DOMAIN war_participants : "decksUsed" \notin DOMAIN war_participants[k]
    /\ \E k \in DOMAIN war_participants : "decksUsed" \in DOMAIN war_participants[k]
    /\ benchmark = 16

\* C4: with a positive attack count present, the benchmark never exceeds the maximum
\* positive count, is that maximum or a most frequent count among 4, 8, 12, and when
\* one count is the most frequent it is that count if it is 4, 8 or 12 and below the
\* maximum, and the maximum otherwise; identical counts k give k, [4,4,4,8,4,4] gives 4
\* and [16,16,16,16] gives 16.
C4_ModeOrMax ==
    /\ (Benchmarked /\ PositiveAt # {}) =>
          LET max == MaxPositive
              modes == Modes
          IN /\ benchmark <= max
             /\ benchmark = max
                   \/ (benchmark \in modes /\ benchmark \in {4, 8, 12} /\ benchmark < max)
             /\ (\A m \in modes : m \notin {4, 8, 12} \/ m = max) => benchmark = max
             /\ \A m \in modes :
                   modes = {m} =>
                       benchmark = IF m \in {4, 8, 12} /\ m < max THEN m ELSE max
             /\ \A m \in PositiveCounts : PositiveCounts = {m} => benchmark = m
    /\ (Benchmarked /\ war_participants = WithAttacks(<<4, 4, 4, 8, 4, 4>>)) => benchmark = 4
    /\ (Benchmarked /\ war_participants = WithAttacks(<<16, 16, 16, 16>>)) => benchmark = 16

\* a list whose single most frequent count is a checkpoint below the maximum
C4_Witness ==
    /\ Benchmarked
    /\ \E m \in PositiveCounts : Modes = {m} /\ m \in {4, 8, 12} /\ m < MaxPositive
    /\ benchmark < MaxPositive

\* C5: when several counts tie for the highest frequency the mode is the tied count
\* met first in input order, so the order of the list decides the benchmark:
\* [4,4,8,8,16] gives 4 and [16,16,4,4,8] gives 16.
C5_TieFirstEncountered ==
    /\ (Benchmarked /\ PositiveAt # {}) =>
          LET max == MaxPositive
              first == FirstMode
          IN /\ MostCommon(DecksUsedList(war_participants)) = first
             /\ benchmark = IF first \in {4, 8, 12} /\ first < max THEN first ELSE max
    /\ (Benchmarked /\ war_participants = WithAttacks(<<4, 4, 8, 8, 16>>)) => benchmark = 4
    /\ (Benchmarked /\ war_participants = WithAttacks(<<16, 16, 4, 4, 8>>)) => benchmark = 16

\* a tie between a checkpoint met first and a larger count met later
C5_Witness ==
    /\ Benchmarked
    /\ Cardinality(Modes) >= 2
    /\ FirstMode \in {4, 8, 12}
    /\ \E u \in Modes : u > FirstMode /\ FirstAt(u) > FirstAt(FirstMode)
    /\ benchmark = FirstMode

-----------------------------------------------------------------------------
(* Properties of a former member seen in one war *)

RECURSIVE Sum(_, _)
Sum(f, S) ==
    IF S = {} THEN 0
    ELSE LET x == CHOOSE y \in S : TRUE IN f[x] + Sum(f, S \ {x})

EntryFame(w)  == [e \in DOMAIN WarEntries(w) |->
                    IF "fame" \in DOMAIN WarEntries(w)[e] THEN WarEntries(w)[e].fame ELSE 0]
EntryDecks(w) == [e \in DOMAIN WarEntries(w) |->
                    IF "decksUsed" \in DOMAIN WarEntries(w)[e]
                    THEN WarEntries(w)[e].decksUsed ELSE 0]
EntryName(w)  == [e \in DOMAIN WarEntries(w) |->
                    IF "name" \in DOMAIN WarEntries(w)[e] THEN WarEntries(w)[e].name ELSE "None"]

\* the tag is not on the roster and is a participant of war w and of no other war
OnlyInWar(t, w) ==
    /\ ~InRoster(t)
    /\ InWar(t, w)
    /\ \A v \in DOMAIN Items : v # w => ~InWar(t, v)

\* C6: a tag that is not on the roster and is a participant of exactly one war of the
\* log has a record whose name is a name that war reports for it followed by " (*)",
\* whose current-war fields are 0, whose history is zero at every other war, and whose
\* totals are that war's decksUsed and fame for the tag (the history entry of that war
\* too, when the war lists the tag once).
C6_FormerMemberOfOneWar ==
    Aggregated =>
        \A w \in DOMAIN Items : \A t \in DOMAIN player_stats :
            OnlyInWar(t, w) =>
                LET r == player_stats[t]
                    es == EntriesOfTag(t, w)
                IN /\ \E e \in es : r.name = EntryName(w)[e] \o " (*)"
                   /\ r.current_war_decks_used = 0
                   /\ r.current_war_fame = 0
                   /\ \A v \in DOMAIN Items :
                         v # w => r.war_history[war_ids[v]] = [fame |-> 0, decksUsed |-> 0]
                   /\ r.total_decks_used = Sum(EntryDecks(w), es)
                   /\ r.total_war_fame = Sum(EntryFame(w), es)
                   /\ \A e \in es :
                         es = {e} =>
                             r.war_history[war_ids[w]] =
                                 [fame |-> EntryFame(w)[e], decksUsed |-> EntryDecks(w)[e]]

\* a report over three wars with a former member seen once, in the second war only,
\* with the clan's other participants in the wars around it, the tag being listed in
\* the current war as well
C6_Witness ==
    /\ Aggregated
    /\ Len(Items) = 3
    /\ WarEntries(1) # <<>>
    /\ WarEntries(3) # <<>>
    /\ \E t \in DOMAIN player_stats :
          /\ OnlyInWar(t, 2)
          /\ Cardinality(EntriesOfTag(t, 2)) = 1
          /\ player_stats[t].total_decks_used > 0
          /\ player_stats[t].total_war_fame > 0
          /\ t \in TagsOf(CurrentParticipants(current_war_data))

-----------------------------------------------------------------------------
(* Properties of failures *)

SomeFetchFailed == clan_data = None \/ current_war_data = None \/ war_log_data = None

\* the sections appended so far are those of the first clans of the list, in order,
\* and a call that met the failure sentinel returns the error fragment and has built
\* nothing
C7_Sections ==
    /\ Len(clan_sections_html) = IF pc = "done" THEN Len(DARK_FAMILY_CLANS) ELSE i - 1
    /\ \A k \in DOMAIN clan_sections_html :
          clan_sections_html[k].tag = DARK_FAMILY_CLANS[k][2]
    /\ (pc = "returned" /\ SomeFetchFailed) =>
          /\ section = [tag |-> clan_tag, kind |-> "error", active |-> (i = 1)]
          /\ player_stats = EmptyDict
          /\ current_member_tags = {}
          /\ war_ids = <<>>
          /\ war_benchmarks = EmptyDict

\* a returned section, the error fragment included, is appended and the run goes on to
\* the next clan
C7_Continues ==
    pc = "returned" =>
        /\ clan_sections_html' = Append(clan_sections_html, section)
        /\ i' = i + 1
        /\ pc' = "loop"

\* C7: a fetch failure is local to its clan: the clan's section is the error fragment
\* and no registry is built, the run goes on to the next clan, and the document holds
\* one section per configured clan in configuration order.
C7_FailureIsLocal == [](C7_Sections) /\ [][C7_Continues]_vars

\* a finished run in which a clan whose fetch failed is followed by a reported clan
C7_Witness ==
    /\ pc = "done"
    /\ \E j, k \in DOMAIN clan_sections_html :
          /\ j < k
          /\ clan_sections_html[j].kind = "error"
          /\ clan_sections_html[k].kind = "report"

\* C8: when none of the three payloads is the failure sentinel the clan is aggregated
\* and rendered, an empty JSON object among them included.
C8_OnlyFailureGivesErrorFragment ==
    (pc = "returned" /\ ~SomeFetchFailed) => section = ReportSection

\* C9: with three non-failure payloads the aggregation never fails on an absent field.
C9_MissingFieldNeverFails == pc # "raised"

-----------------------------------------------------------------------------
(* Properties of the benchmark map *)

\* C10: the benchmark map has exactly the war identifiers as keys; for a clan outside
\* the top-clan set every entry is 16, and for a top clan the entry of a war is
\* calculate_fair_benchmark of the participants of the first standing of the clan,
\* 16 when the war has no standing of the clan.
C10_BenchmarkPerWar ==
    Aggregated =>
        /\ DOMAIN war_benchmarks = SeqToSet(war_ids)
        /\ \A w \in DOMAIN Items :
              /\ clan_tag \notin TOP_CLANS_FOR_BENCHMARK => war_benchmarks[war_ids[w]] = 16
              /\ clan_tag \in TOP_CLANS_FOR_BENCHMARK =>
                    war_benchmarks[war_ids[w]] = calculate_fair_benchmark(WarEntries(w))
              /\ (~\E k \in DOMAIN Standings(Items[w]) : OwnStanding(Standings(Items[w])[k]))
                    => war_benchmarks[war_ids[w]] = 16

\* a top clan's report with a war of two standings of the clan whose benchmark is the
\* checkpoint of the first one, and a war without a standing of the clan
C10_Witness ==
    /\ Aggregated
    /\ clan_tag \in TOP_CLANS_FOR_BENCHMARK
    /\ \E w \in DOMAIN Items :
          /\ Cardinality({k \in DOMAIN Standings(Items[w]) :
                             OwnStanding(Standings(Items[w])[k])}) = 2
          /\ war_benchmarks[war_ids[w]] = 4
    /\ \E w \in DOMAIN Items :
          /\ \A k \in DOMAIN Standings(Items[w]) : ~OwnStanding(Standings(Items[w])[k])
          /\ war_benchmarks[war_ids[w]] = 16

-----------------------------------------------------------------------------
(* Properties of names while the war log is scanned *)

\* the next war of the log is processed by this step
WarStep == pc = "war_loop" /\ war_index' = war_index + 1

\* the name of the record has been set from the roster or from a participant of a
\* war already processed
NameSet(t) == InRoster(t) \/ \E v \in 1..war_index : InWar(t, v)

\* the position of the first entry of war w that carries tag t
FirstEntryOf(t, w) ==
    CHOOSE e \in EntriesOfTag(t, w) : \A f \in EntriesOfTag(t, w) : e <= f

C11_Step ==
    WarStep =>
        \A t \in DOMAIN player_stats :
            /\ NameSet(t) => player_stats'[t].name = player_stats[t].name
            /\ (~NameSet(t) /\ InWar(t, war_index + 1)) =>
                  /\ player_stats[t].name = "Former Member (*)"
                  /\ player_stats'[t].name =
                        EntryName(war_index + 1)[FirstEntryOf(t, war_index + 1)] \o " (*)"
            /\ (~NameSet(t) /\ ~InWar(t, war_index + 1)) =>
                  player_stats'[t].name = player_stats[t].name

\* C11: while the war log is scanned, a placeholder record is renamed to the reported
\* name followed by " (*)" at the first war its tag participates in, and a name set
\* from the roster or from a war-log participant is changed by no later war.
C11_NamesNeverRegress == [][C11_Step]_vars

-----------------------------------------------------------------------------
(* Properties of the current-war fields *)

\* the entries of the current-war payload
CurrentEntries ==
    IF "clan" \in DOMAIN current_war_data /\ "participants" \in DOMAIN current_war_data.clan
    THEN current_war_data.clan.participants ELSE <<>>

\* the positions of the current-war entries that carry tag t
CurrentEntriesOfTag(t) == {e \in DOMAIN CurrentEntries : TagOfEntry(CurrentEntries[e]) = t}

\* the current-war values the payload gives tag t: those of its last entry, zero
\* where a field or the tag is absent
CurrentValues(t) ==
    IF CurrentEntriesOfTag(t) = {} THEN [decksUsed |-> 0, fame |-> 0]
    ELSE LET e == CurrentEntries[CHOOSE x \in CurrentEntriesOfTag(t) :
                                     \A y \in CurrentEntriesOfTag(t) : y <= x]
         IN [decksUsed |-> IF "decksUsed" \in DOMAIN e THEN e.decksUsed ELSE 0,
             fame |-> IF "fame" \in DOMAIN e THEN e.fame ELSE 0]

\* the current-war fields of a record
CurrentFields(r) == <<r.current_war_decks_used, r.current_war_fame>>

\* the fields of a record that the war log feeds, and its name
LogFields(r) == <<r.name, r.total_decks_used, r.total_war_fame, r.war_history>>

\* the overlay of the current war: no record is created, the fields fed by the war log
\* are untouched, and a roster record listed in the payload takes its values
C12_OverlayStep ==
    pc = "overlay" =>
        /\ DOMAIN player_stats' = DOMAIN player_stats
        /\ \A t \in DOMAIN player_stats :
              /\ LogFields(player_stats'[t]) = LogFields(player_stats[t])
              /\ CurrentEntriesOfTag(t) = {} => player_stats'[t] = player_stats[t]
              /\ CurrentFields(player_stats'[t]) =
                    <<CurrentValues(t).decksUsed, CurrentValues(t).fame>>

\* the processing of the war log: the current-war fields of a record stay as they are
\* and a record it creates has them at zero
C12_WarLogStep ==
    pc \in {"war_log", "war_loop"} =>
        \A t \in DOMAIN player_stats' :
            CurrentFields(player_stats'[t]) =
                IF t \in DOMAIN player_stats THEN CurrentFields(player_stats[t]) ELSE <<0, 0>>

\* a built report: the current-war fields of a roster record are those of the payload,
\* and those of any other record are zero
C12_Built ==
    Aggregated =>
        \A t \in DOMAIN player_stats :
            CurrentFields(player_stats[t]) =
                IF InRoster(t) THEN <<CurrentValues(t).decksUsed, CurrentValues(t).fame>>
                ELSE <<0, 0>>

\* C12: the current-war fields are overlaid on roster tags only and come from the
\* current-war payload only: an entry of a tag that is not on the roster creates no
\* record and changes no field, the war log leaves the current-war fields as they
\* are, and the current-war payload leaves the totals and the history as they are.
C12_CurrentWarFrame ==
    [](C12_Built) /\ [][C12_OverlayStep /\ C12_WarLogStep]_vars

\* a report in which the current war lists a roster member with its own values and a
\* tag that is not on the roster, recorded from the war log with current-war zeros
C12_Witness ==
    /\ Aggregated
    /\ \E t \in DOMAIN player_stats :
          /\ InRoster(t)
          /\ CurrentEntriesOfTag(t) # {}
          /\ player_stats[t].current_war_decks_used > 0
          /\ player_stats[t].total_decks_used > 0
          /\ player_stats[t].total_decks_used # player_stats[t].current_war_decks_used
    /\ \E t \in DOMAIN player_stats :
          /\ ~InRoster(t)
          /\ CurrentEntriesOfTag(t) # {}
          /\ CurrentValues(t).decksUsed > 0
          /\ player_stats[t].current_war_decks_used = 0
          /\ player_stats[t].total_decks_used > 0
    /\ \E e \in DOMAIN CurrentEntries : "tag" \notin DOMAIN CurrentEntries[e]

-----------------------------------------------------------------------------
(* Properties of the totals *)

HistoryDecks(r) == [id \in DOMAIN r.war_history |-> r.war_history[id].decksUsed]
HistoryFame(r)  == [id \in DOMAIN r.war_history |-> r.war_history[id].fame]

\* C13: in a built report the total_decks_used of every record is the sum of decksUsed
\* over its war_history and its total_war_fame is the sum of fame over it, a war that
\* lists a tag more than once included.
C13_TotalsAreHistorySums ==
    Aggregated =>
        \A t \in DOMAIN player_stats :
            /\ player_stats[t].total_decks_used =
                  Sum(HistoryDecks(player_stats[t]), DOMAIN player_stats[t].war_history)
            /\ player_stats[t].total_war_fame =
                  Sum(HistoryFame(player_stats[t]), DOMAIN player_stats[t].war_history)

====
